---- MODULE Spec2Model ----
(***************************************************************************)
(* Model of the attendance tracker (src/unnamed/part_001, the App          *)
(* component).  The program state is the two React state hooks `students`  *)
(* and `attendance`, the queue of pending updates of `students`, the value *)
(* of `today` captured by the last render, the two localStorage keys, the  *)
(* FileReader reads in flight, and the clock.                              *)
(*                                                                         *)
(* Scheduling.  A click or key press is a discrete event: React renders    *)
(* and commits its update before the handler's event ends, so each such    *)
(* handler is one action that includes the render and the save effects.    *)
(* The update made from FileReader.onload is batched: it waits in the      *)
(* hook's queue until a later render (action Render), and a discrete event *)
(* that arrives in between renders without it (the update is skipped and   *)
(* rebased).  A build that renders such an update at once behaves as the   *)
(* interleaving in which Render directly follows it.  Opening the page is  *)
(* one action: the first render, the mount effects and the render of what  *)
(* they loaded.  Every update of `attendance` is made by a click, so that  *)
(* hook never has an update waiting.                                       *)
(*                                                                         *)
(* Text is a sequence of one-character strings, so trim, split and         *)
(* toLowerCase are computed as the code computes them.                     *)
(***************************************************************************)
EXTENDS Integers, Sequences, FiniteSets, TLC

VARIABLES
    students,    \* memoized state of useState<Student[]> (what the last render saw)
    sBase,       \* its base state: the state before the first skipped update
    sQueue,      \* its pending updates, oldest first
    attendance,  \* state of useState<AttendanceData>
    today,       \* `today` as computed by the last render
    now,         \* Date.now(), in milliseconds
    date,        \* the calendar date of the clock
    reading,     \* texts of the FileReader reads in flight
    ls,          \* localStorage: the values under "students" and "attendance"
    phase,       \* "closed" (page not open), "running", "crashed" (root unmounted by an uncaught error)
    op           \* history: the operation that produced this state

vars == <<students, sBase, sQueue, attendance, today, now, date, reading, ls,
          phase, op>>

----------------------------------------------------------------------------
(* Bounds of the model *)

MaxRoster == 2
MaxNow == 2
MaxDate == 2
MaxReads == 1
MaxQueue == 2
MaxPending == 1
RandSteps == 2
MaxRecords == 40

----------------------------------------------------------------------------
(* Text *)

White == {" ", "\t", "\r", "\n"}

\* String.prototype.trim
RECURSIVE TrimLeft(_)
TrimLeft(s) ==
    IF s # <<>> /\ Head(s) \in White THEN TrimLeft(Tail(s)) ELSE s

RECURSIVE TrimRight(_)
TrimRight(s) ==
    IF s # <<>> /\ s[Len(s)] \in White THEN TrimRight(SubSeq(s, 1, Len(s) - 1)) ELSE s

Trim(s) == TrimRight(TrimLeft(s))

\* String.prototype.toLowerCase
UpperCase == <<"A", "B", "C", "D", "E", "F", "G", "H", "I", "J", "K", "L", "M",
               "N", "O", "P", "Q", "R", "S", "T", "U", "V", "W", "X", "Y", "Z">>
LowerCase == <<"a", "b", "c", "d", "e", "f", "g", "h", "i", "j", "k", "l", "m",
               "n", "o", "p", "q", "r", "s", "t", "u", "v", "w", "x", "y", "z">>

LowerChar(c) ==
    IF \E i \in 1..Len(UpperCase) : UpperCase[i] = c
    THEN LowerCase[CHOOSE i \in 1..Len(UpperCase) : UpperCase[i] = c]
    ELSE c

ToLower(s) == [i \in 1..Len(s) |-> LowerChar(s[i])]

\* text.split(/\r?\n/): a line ends at the first "\n"; a "\r" directly
\* before it belongs to the separator
RECURSIVE Split(_)
Split(text) ==
    LET feeds == {i \in 1..Len(text) : text[i] = "\n"}
    IN IF feeds = {} THEN <<text>>
       ELSE LET feed == CHOOSE i \in feeds : \A j \in feeds : i <= j
                end == IF feed >= 2 /\ text[feed - 1] = "\r"
                       THEN feed - 2 ELSE feed - 1
            IN <<SubSeq(text, 1, end)>> \o Split(SubSeq(text, feed + 1, Len(text)))

\* .split(/\r?\n/).map((line) => line.trim()).filter(Boolean)
NonEmpty(s) == s # <<>>
ParseNames(text) ==
    LET lines == Split(text)
        trimmed == [i \in 1..Len(lines) |-> Trim(lines[i])]
    IN SelectSeq(trimmed, NonEmpty)

----------------------------------------------------------------------------
(* JSON in localStorage.  A stored value is the text JSON.stringify wrote  *)
(* (an array of [id, name] members, or an object as its set of key/value   *)
(* members), nothing (getItem returns null), or text that does not parse.  *)

Null == [json |-> "null"]
Garbage == [json |-> "garbage"]

EmptyTable == [k \in {} |-> <<>>]

\* JSON.stringify(students)
StringifyStudents(s) ==
    [json |-> "array", items |-> [i \in 1..Len(s) |-> <<s[i].id, s[i].name>>]]

\* JSON.parse(storedStudents)
ParseStudents(v) ==
    [i \in 1..Len(v.items) |-> [id |-> v.items[i][1], name |-> v.items[i][2]]]

\* JSON.stringify(attendance)
StringifyAttendance(a) ==
    [json |-> "object",
     members |-> {<<k, [i \in 1..Len(a[k]) |-> <<a[k][i].date, a[k][i].status>>]>> :
                     k \in DOMAIN a}]

\* JSON.parse(storedAttendance)
ParseAttendance(v) ==
    [k \in {m[1] : m \in v.members} |->
        LET m == CHOOSE x \in v.members : x[1] = k
        IN [i \in 1..Len(m[2]) |-> [date |-> m[2][i][1], status |-> m[2][i][2]]]]

----------------------------------------------------------------------------
(* Numbers.  A JavaScript number is an IEEE 754 double.  A positive double *)
(* is [bits, exp]: bits are the Precision bits of its significand, most    *)
(* significant first and the first of them 1, and its value is             *)
(* bits * 2^exp.  The double 0 has only 0 bits.                            *)

Precision == 53

\* The arithmetic is done on limbs of LimbBits bits, so that no intermediate
\* value leaves the integers the checker computes with.
LimbBits == 9

RECURSIVE Pow2(_)
Pow2(k) == IF k = 0 THEN 1 ELSE 2 * Pow2(k - 1)

Zeros(k) == [i \in 1..k |-> 0]

Zero == [bits |-> Zeros(Precision), exp |-> 0]

\* the natural number a short sequence of bits stands for
RECURSIVE BitsValue(_)
BitsValue(bits) ==
    IF bits = <<>> THEN 0
    ELSE 2 * BitsValue(SubSeq(bits, 1, Len(bits) - 1)) + bits[Len(bits)]

\* the LimbBits bits of a limb
LimbToBits(limb) == [i \in 1..LimbBits |-> (limb \div Pow2(LimbBits - i)) % 2]

\* bits without the zeros in front
Normalized(bits) ==
    LET ones == {i \in 1..Len(bits) : bits[i] = 1}
    IN IF ones = {} THEN <<>>
       ELSE SubSeq(bits, CHOOSE i \in ones : \A j \in ones : i <= j, Len(bits))

\* bits + 1
Increment(bits) ==
    LET zeros == {i \in 1..Len(bits) : bits[i] = 0}
    IN IF zeros = {} THEN <<1>> \o Zeros(Len(bits))
       ELSE LET last == CHOOSE i \in zeros : \A j \in zeros : i >= j
            IN [i \in 1..Len(bits) |->
                   IF i < last THEN bits[i] ELSE IF i = last THEN 1 ELSE 0]

\* the limbs of bits, most significant first
RECURSIVE ToLimbs(_)
ToLimbs(bits) ==
    IF Len(bits) <= LimbBits THEN <<BitsValue(bits)>>
    ELSE Append(ToLimbs(SubSeq(bits, 1, Len(bits) - LimbBits)),
                BitsValue(SubSeq(bits, Len(bits) - LimbBits + 1, Len(bits))))

\* limbs * m + carry, as bits
RECURSIVE TimesLimbs(_, _, _)
TimesLimbs(limbs, m, carry) ==
    IF limbs = <<>> THEN LimbToBits(carry)
    ELSE LET product == limbs[Len(limbs)] * m + carry
         IN TimesLimbs(SubSeq(limbs, 1, Len(limbs) - 1), m,
                       product \div Pow2(LimbBits))
                \o LimbToBits(product % Pow2(LimbBits))

\* bits * 100
Times100(bits) == Normalized(TimesLimbs(ToLimbs(bits), 100, 0))

\* Rounding to nearest, ties to even, of the exact value bits * 2^exp (plus
\* something below the last bit when `sticky`), bits being more than
\* Precision bits that start with a 1.
RoundNearestEven(bits, exp, sticky) ==
    LET keep == SubSeq(bits, 1, Precision)
        rest == SubSeq(bits, Precision + 1, Len(bits))
        half == rest[1] = 1
        more == sticky \/ \E i \in 2..Len(rest) : rest[i] = 1
        up == half /\ (more \/ keep[Precision] = 1)
        rounded == IF up THEN Increment(keep) ELSE keep
    IN [bits |-> SubSeq(rounded, 1, Precision),
        exp |-> exp + Len(rest) + (IF Len(rounded) > Precision THEN 1 ELSE 0)]

\* the least k with p * 2^k >= n
RECURSIVE NormShift(_, _)
NormShift(p, n) == IF p >= n THEN 0 ELSE 1 + NormShift(2 * p, n)

\* long division: the next `count` limbs of r / n for r < n, as bits, and
\* what is left
RECURSIVE DivBits(_, _, _)
DivBits(r, n, count) ==
    IF count = 0 THEN [bits |-> <<>>, rem |-> r]
    ELSE LET scaled == r * Pow2(LimbBits)
             rest == DivBits(scaled % n, n, count - 1)
         IN [bits |-> LimbToBits(scaled \div n) \o rest.bits, rem |-> rest.rem]

\* p / n in doubles, for integers 0 <= p <= n, n > 0: the quotient to one
\* bit more than the significand holds, then rounded
Divide(p, n) ==
    IF p = 0 THEN Zero
    ELSE IF p = n THEN [bits |-> <<1>> \o Zeros(Precision - 1), exp |-> 1 - Precision]
    ELSE LET k == NormShift(p, n)
             q == DivBits(p * Pow2(k - 1), n, (Precision + 1) \div LimbBits)
         IN RoundNearestEven(q.bits, 0 - (k + Precision), q.rem # 0)

\* x * 100 in doubles
Multiply100(x) ==
    IF x = Zero THEN Zero ELSE RoundNearestEven(Times100(x.bits), x.exp, FALSE)

\* Math.round(x) for a double 0 <= x < 2^(Precision - 1): the nearest integer,
\* a half going up
MathRound(x) ==
    IF x = Zero THEN 0
    ELSE LET fraction == 0 - x.exp
         IN IF fraction <= 0 THEN BitsValue(x.bits) * Pow2(x.exp)
            ELSE IF fraction > Precision THEN 0
            ELSE BitsValue(SubSeq(x.bits, 1, Precision - fraction))
                     + x.bits[Precision - fraction + 1]

----------------------------------------------------------------------------
(* The attendance table *)

\* prev[studentId] || []
RecordsOf(table, studentId) ==
    IF studentId \in DOMAIN table THEN table[studentId] ELSE <<>>

\* a findIndex that never finds the record
FindIndexNone(records, d) == 0

\* records.findIndex((r) => r.date === d), 1-based; 0 stands for -1
FindIndex(records, d) ==
    IF \E i \in 1..Len(records) : records[i].date = d
    THEN CHOOSE i \in 1..Len(records) :
            /\ records[i].date = d
            /\ \A j \in 1..(i - 1) : records[j].date # d
    ELSE 0

\* { ...prev, [studentId]: records }
WithRecords(prev, studentId, records) ==
    [k \in DOMAIN prev \cup {studentId} |->
        IF k = studentId THEN records ELSE prev[k]]

\* the updater toggleAttendance passes to setAttendance; d is the `today`
\* of the render whose handler was clicked
ToggleUpdater(prev, studentId, d) ==
    LET records == RecordsOf(prev, studentId)
        todayIndex == FindIndex(records, d)
    IN IF todayIndex >= 1
       THEN LET currentStatus == records[todayIndex].status
                newStatus == IF currentStatus = "present" THEN "absent" ELSE "present"
                updatedRecords ==
                    [records EXCEPT ![todayIndex] = [date |-> d, status |-> newStatus]]
            IN WithRecords(prev, studentId, updatedRecords)
       ELSE WithRecords(prev, studentId,
                        Append(records, [date |-> d, status |-> "present"]))

\* getTodayStatus, for the table and the `today` of a render
GetTodayStatus(table, studentId, d) ==
    LET records == RecordsOf(table, studentId)
        i == FindIndex(records, d)
    IN IF i >= 1 THEN records[i].status ELSE "absent"

\* getAttendancePercentage, for the table of a render
GetAttendancePercentage(table, studentId) ==
    LET records == RecordsOf(table, studentId)
        IsPresent(r) == r.status = "present"
        presentDays == Len(SelectSeq(records, IsPresent))
    IN IF Len(records) = 0 THEN 0
       ELSE MathRound(Multiply100(Divide(presentDays, Len(records))))

----------------------------------------------------------------------------
(* Export *)

Digits == <<"0", "1", "2", "3", "4", "5", "6", "7", "8", "9">>

\* new Date().toISOString().split("T")[0]: day 1 of the model is 2024-01-01,
\* the days after the 31st are those of February
DateText(d) ==
    LET month == IF d <= 31 THEN 1 ELSE 2
        day == IF d <= 31 THEN d ELSE d - 31
    IN <<"2", "0", "2", "4", "-", "0", Digits[month + 1], "-",
         Digits[(day \div 10) + 1], Digits[(day % 10) + 1]>>

\* the status of a record, as text
StatusText(status) ==
    IF status = "present" THEN <<"p", "r", "e", "s", "e", "n", "t">>
    ELSE <<"a", "b", "s", "e", "n", "t">>

NoRecordsText == <<"N", "o", " ", "r", "e", "c", "o", "r", "d", "s">>

\* ["Student Name", "Date", "Status"]
Header ==
    << <<"S", "t", "u", "d", "e", "n", "t", " ", "N", "a", "m", "e">>,
       <<"D", "a", "t", "e">>,
       <<"S", "t", "a", "t", "u", "s">> >>

\* Array.prototype.join
RECURSIVE Join(_, _)
Join(parts, sep) ==
    IF parts = <<>> THEN <<>>
    ELSE IF Len(parts) = 1 THEN parts[1]
    ELSE parts[1] \o sep \o Join(Tail(parts), sep)

\* rows that leave out the students without records
RECURSIVE ExportRowsSkipEmpty(_, _)
ExportRowsSkipEmpty(roster, table) ==
    IF roster = <<>> THEN <<>>
    ELSE LET student == Head(roster)
             records == RecordsOf(table, student.id)
         IN [k \in 1..Len(records) |->
                <<student.name, DateText(records[k].date),
                  StatusText(records[k].status)>>]
            \o ExportRowsSkipEmpty(Tail(roster), table)

\* students.flatMap(...): the rows of exportCSV
RECURSIVE ExportRows(_, _)
ExportRows(roster, table) ==
    IF roster = <<>> THEN <<>>
    ELSE LET student == Head(roster)
             records == RecordsOf(table, student.id)
         IN (IF Len(records) = 0
             THEN << <<student.name, <<>>, NoRecordsText>> >>
             ELSE [k \in 1..Len(records) |->
                      <<student.name, DateText(records[k].date),
                        StatusText(records[k].status)>>])
            \o ExportRows(Tail(roster), table)

\* csvContent: [header, ...rows].map((e) => e.join(",")).join("\n")
CsvContent(roster, table) ==
    LET all == <<Header>> \o ExportRows(roster, table)
    IN Join([i \in 1..Len(all) |-> Join(all[i], <<",">>)], <<"\n">>)

----------------------------------------------------------------------------
(* The roster *)

\* Date.now() + Math.random(): a double near Date.now() has RandSteps
\* representable values per millisecond; frac = 0 is a sum that rounds to the
\* millisecond itself.  Date.now() alone is Id(ms, 0).
Id(ms, frac) == ms * RandSteps + frac

\* names.map((name) => ({ id: Date.now() + Math.random(), name }))
NewStudents(names, ms, fracs) ==
    [i \in 1..Len(names) |-> [id |-> Id(ms, fracs[i]), name |-> names[i]]]

\* an updater that compares the names as they are written
ImportUpdaterCaseSensitive(prev, newStudents) ==
    LET existingNames == {prev[i].name : i \in 1..Len(prev)}
        Fresh(s) == s.name \notin existingNames
    IN prev \o SelectSeq(newStudents, Fresh)

\* an updater that also drops a name an earlier line of the file has
ImportUpdaterDedup(prev, newStudents) ==
    LET existingNames == {ToLower(prev[i].name) : i \in 1..Len(prev)}
        First(i) ==
            /\ ToLower(newStudents[i].name) \notin existingNames
            /\ \A j \in 1..(i - 1) :
                  ToLower(newStudents[j].name) # ToLower(newStudents[i].name)
        kept == SelectSeq([i \in 1..Len(newStudents) |-> i], First)
    IN prev \o [k \in 1..Len(kept) |-> newStudents[kept[k]]]

\* the updater reader.onload passes to setStudents
ImportUpdater(prev, newStudents) ==
    LET existingNames == {ToLower(prev[i].name) : i \in 1..Len(prev)}
        Fresh(s) == ToLower(s.name) \notin existingNames
        filteredNew == SelectSeq(newStudents, Fresh)
    IN prev \o filteredNew

----------------------------------------------------------------------------
(* useState: the update queue of a hook.  An update is                     *)
(*   [lane, kind |-> "set", value]                 setX(value)             *)
(*   [lane, kind |-> "import", newStudents, text]  setStudents(updater)    *)
(*   [lane, kind |-> "toggle", studentId, today]   setAttendance(updater)  *)
(* lane is "sync" (discrete event), "default" (onload, effect) or "none"   *)
(* (already rendered once, kept for the rebase).                           *)

Reduce(state, u) ==
    CASE u.kind = "set" -> u.value
      [] u.kind = "import" -> ImportUpdater(state, u.newStudents)
      [] u.kind = "toggle" -> ToggleUpdater(state, u.studentId, u.today)

SyncLanes == {"sync"}
AllLanes == {"sync", "default"}

\* One render's pass over a hook's queue: an update whose lane is not being
\* rendered is skipped; it and every update after it stay queued, and the
\* base state is the state before the first skipped update.
RECURSIVE ProcessFrom(_, _, _, _, _)
ProcessFrom(queue, state, newBase, newQueue, lanes) ==
    IF queue = <<>>
    THEN [memo |-> state,
          base |-> IF newQueue = <<>> THEN state ELSE newBase,
          queue |-> newQueue]
    ELSE LET u == Head(queue)
         IN IF u.lane # "none" /\ u.lane \notin lanes
            THEN ProcessFrom(Tail(queue), state,
                             IF newQueue = <<>> THEN state ELSE newBase,
                             Append(newQueue, u), lanes)
            ELSE ProcessFrom(Tail(queue), Reduce(state, u), newBase,
                             IF newQueue = <<>> THEN newQueue
                             ELSE Append(newQueue, [u EXCEPT !.lane = "none"]),
                             lanes)

ProcessQueue(base, queue, lanes) == ProcessFrom(queue, base, base, <<>>, lanes)

\* the state a hook reaches once every queued update has been rendered
Settled(base, queue) == ProcessQueue(base, queue, AllLanes).memo

HasDefault(queue) == \E i \in 1..Len(queue) : queue[i].lane = "default"

\* history: the students each import updater of a full render appends
RECURSIVE ImportedFrom(_, _)
ImportedFrom(queue, state) ==
    IF queue = <<>> THEN <<>>
    ELSE LET u == Head(queue)
             next == Reduce(state, u)
         IN (IF u.kind = "import"
             THEN <<[text |-> u.text, prev |-> state, result |-> next]>>
             ELSE <<>>) \o ImportedFrom(Tail(queue), next)

----------------------------------------------------------------------------
(* Inputs *)

\* what the user may have typed in the name box when Add is pressed
TypedNames ==
    { <<>>,
      <<" ", " ">>,
      <<" ", "B", "o", "b", " ">> }

ScenarioText ==
    <<"A", "l", "i", "c", "e", "\n", "B", "o", "b", "\n",
      "A", "l", "i", "c", "e", "\n", "\n",
      " ", " ", "C", "a", "r", "o", "l", " ", " ">>

\* names typed before an export, one of them with a comma
ExportNames ==
    { <<" ", "B", "o", "b", " ">>,
      <<"A", "l", ",", "Z">> }

\* the files the user may pick
RosterFile == <<"b", "o", "b", "\r", "\n", "\r", "\n", " ", "A", "l", "\t", "\n">>
CaseFile == <<"A", "L", "\n", "\n", "a", "l", "\r">>
ShoutFile == <<"B", "O", "B", "\r", "\n">>

Files == {RosterFile}
ImportFiles == {RosterFile, CaseFile, ShoutFile}

----------------------------------------------------------------------------
(* Render and commit *)

\* save effects of which only the one of `students` runs
SaveEffectsStudentsOnly(store, oldStudents, newStudents, oldAttendance, newAttendance) ==
    [students |-> IF newStudents # oldStudents
                  THEN StringifyStudents(newStudents) ELSE store.students,
     attendance |-> store.attendance]

\* the two save effects: each runs when its dependency changed
SaveEffects(store, oldStudents, newStudents, oldAttendance, newAttendance) ==
    [students |-> IF newStudents # oldStudents
                  THEN StringifyStudents(newStudents) ELSE store.students,
     attendance |-> IF newAttendance # oldAttendance
                    THEN StringifyAttendance(newAttendance) ELSE store.attendance]

\* a render of the given lanes over the queue sq of `students`, with the new
\* state of `attendance`, and its commit
RenderCommit(sq, newAttendance, lanes) ==
    LET s == ProcessQueue(sBase, sq, lanes)
    IN /\ students' = s.memo
       /\ sBase' = s.base
       /\ sQueue' = s.queue
       /\ attendance' = newAttendance
       /\ today' = date
       /\ ls' = SaveEffects(ls, students, s.memo, attendance, newAttendance)

\* Opening the page over the stored values `store`: the first render, the
\* load effect, the two save effects (which write the empty state) and the
\* render of the loaded state with its save effects.  JSON.parse throws on
\* text that does not parse; nothing catches it, the effects after it do not
\* run and React unmounts the root.
Boot(store) ==
    IF store.students = Garbage \/ store.attendance = Garbage
    THEN [phase |-> "crashed", students |-> <<>>, attendance |-> EmptyTable,
          ls |-> store]
    ELSE LET loadedStudents == IF store.students # Null
                               THEN ParseStudents(store.students) ELSE <<>>
             loadedAttendance == IF store.attendance # Null
                                 THEN ParseAttendance(store.attendance)
                                 ELSE EmptyTable
             mounted == [students |-> StringifyStudents(<<>>),
                         attendance |-> StringifyAttendance(EmptyTable)]
         IN [phase |-> "running",
             students |-> loadedStudents,
             attendance |-> loadedAttendance,
             ls |-> SaveEffects(mounted, <<>>, loadedStudents,
                                EmptyTable, loadedAttendance)]

Open(store) ==
    LET b == Boot(store)
    IN /\ phase' = b.phase
       /\ students' = b.students
       /\ sBase' = b.students
       /\ sQueue' = <<>>
       /\ attendance' = b.attendance
       /\ today' = date
       /\ reading' = <<>>
       /\ ls' = b.ls

----------------------------------------------------------------------------
(* Operations *)

\* addStudent, with `name` in the name box
AddStudent(name) ==
    /\ phase = "running"
    /\ LET trimmedName == Trim(name)
           newStudent == [id |-> Id(now, 0), name |-> trimmedName]
           update == [lane |-> "sync", kind |-> "set",
                      value |-> Append(students, newStudent)]
       IN IF trimmedName = <<>>
          THEN /\ UNCHANGED <<students, sBase, sQueue, attendance, today, ls>>
               /\ op' = [name |-> "add", done |-> FALSE]
          ELSE /\ RenderCommit(Append(sQueue, update), attendance, SyncLanes)
               /\ op' = [name |-> "add", done |-> TRUE]
    /\ UNCHANGED <<now, date, reading, phase>>

\* toggleAttendance(studentId), clicked on a row of the last render
ToggleAttendance(studentId) ==
    /\ phase = "running"
    /\ RenderCommit(sQueue, ToggleUpdater(attendance, studentId, today), SyncLanes)
    /\ op' = [name |-> "other"]
    /\ UNCHANGED <<now, date, reading, phase>>

\* handleFileUpload: a file was picked, its read starts
SelectFile(text) ==
    /\ phase = "running"
    /\ reading' = Append(reading, text)
    /\ op' = [name |-> "other"]
    /\ UNCHANGED <<students, sBase, sQueue, attendance, today, now, date, ls, phase>>

\* reader.onload of the i-th read in flight: queues the import update
FileLoaded(i) ==
    /\ phase = "running"
    /\ i \in 1..Len(reading)
    /\ LET text == reading[i]
           names == ParseNames(text)
       IN \E fracs \in [1..Len(names) -> 0..(RandSteps - 1)] :
            LET update == [lane |-> "default", kind |-> "import",
                           newStudents |-> NewStudents(names, now, fracs),
                           text |-> text]
            IN sQueue' = Append(sQueue, update)
    /\ reading' = [j \in 1..(Len(reading) - 1) |->
                      IF j < i THEN reading[j] ELSE reading[j + 1]]
    /\ op' = [name |-> "other"]
    /\ UNCHANGED <<students, sBase, attendance, today, now, date, ls, phase>>

\* the render React scheduled for the batched updates
Render ==
    /\ phase = "running"
    /\ HasDefault(sQueue)
    /\ op' = [name |-> "render", imports |-> ImportedFrom(sQueue, sBase)]
    /\ RenderCommit(sQueue, attendance, AllLanes)
    /\ UNCHANGED <<now, date, reading, phase>>

\* the page is opened or reloaded
Reload ==
    /\ Open(ls)
    /\ op' = [name |-> "reload", stored |-> ls,
              before |-> [students |-> students, attendance |-> attendance]]
    /\ UNCHANGED <<now, date>>

\* a confirmed reset that reloads without clearing the storage
ResetWithoutClear ==
    /\ phase = "running"
    /\ Open(ls)
    /\ op' = [name |-> "reset", confirmed |-> TRUE,
              hadData |-> students # <<>> /\ attendance # EmptyTable
                          /\ reading # <<>>]
    /\ UNCHANGED <<now, date>>

\* Reset All Data, confirmed: localStorage.clear(); location.reload()
ResetConfirmed ==
    /\ phase = "running"
    /\ Open([students |-> Null, attendance |-> Null])
    /\ op' = [name |-> "reset", confirmed |-> TRUE,
              hadData |-> students # <<>> /\ attendance # EmptyTable
                          /\ reading # <<>>]
    /\ UNCHANGED <<now, date>>

\* Reset All Data, declined
ResetDeclined ==
    /\ phase = "running"
    /\ op' = [name |-> "reset", confirmed |-> FALSE]
    /\ UNCHANGED <<students, sBase, sQueue, attendance, today, now, date,
                   reading, ls, phase>>

\* the row the render shows for the i-th student: its status today and its
\* attendance percentage
ShowRow(i) ==
    /\ phase = "running"
    /\ i \in 1..Len(students)
    /\ op' = [name |-> "row", id |-> students[i].id,
              todayStatus |-> GetTodayStatus(attendance, students[i].id, today),
              attendancePercent |->
                  GetAttendancePercentage(attendance, students[i].id)]
    /\ UNCHANGED <<students, sBase, sQueue, attendance, today, now, date,
                   reading, ls, phase>>

\* exportCSV: the browser saves csvContent as attendance.csv
ExportCSV ==
    /\ phase = "running"
    /\ op' = [name |-> "export", text |-> CsvContent(students, attendance)]
    /\ UNCHANGED <<students, sBase, sQueue, attendance, today, now, date,
                   reading, ls, phase>>

\* a millisecond passes
Tick ==
    /\ now < MaxNow
    /\ now' = now + 1
    /\ op' = [name |-> "other"]
    /\ UNCHANGED <<students, sBase, sQueue, attendance, today, date, reading,
                   ls, phase>>

\* midnight passes
Midnight ==
    /\ now < MaxNow
    /\ date < MaxDate
    /\ now' = now + 1
    /\ date' = date + 1
    /\ op' = [name |-> "other"]
    /\ UNCHANGED <<students, sBase, sQueue, attendance, today, reading, ls, phase>>

----------------------------------------------------------------------------
(* Specifications *)

\* the page has been opened for the first time, on empty storage
Init ==
    /\ students = <<>>
    /\ sBase = <<>>
    /\ sQueue = <<>>
    /\ attendance = EmptyTable
    /\ today = 1
    /\ now = 1
    /\ date = 1
    /\ reading = <<>>
    /\ ls = [students |-> StringifyStudents(<<>>),
             attendance |-> StringifyAttendance(EmptyTable)]
    /\ phase = "running"
    /\ op = [name |-> "init"]

\* the model's bounds: the roster, also once the queued imports are rendered,
\* has at most MaxRoster students, at most MaxReads reads are in flight and
\* the queue holds at most MaxQueue updates, at most MaxPending of them
\* batched ones that no render has seen
NumDefault(queue) == Cardinality({i \in 1..Len(queue) : queue[i].lane = "default"})

Bounded ==
    /\ Len(students') <= MaxRoster
    /\ Len(Settled(sBase', sQueue')) <= MaxRoster
    /\ Len(reading') <= MaxReads
    /\ Len(sQueue') <= MaxQueue
    /\ NumDefault(sQueue') <= MaxPending

\* every operation
Next ==
    \/ \E name \in TypedNames : AddStudent(name) /\ Bounded
    \/ \E i \in 1..Len(students) : ToggleAttendance(students[i].id)
    \/ \E text \in Files : SelectFile(text) /\ Bounded
    \/ \E i \in 1..Len(reading) : FileLoaded(i) /\ Bounded
    \/ Render
    \/ Reload
    \/ ResetConfirmed
    \/ ResetDeclined
    \/ Tick
    \/ Midnight

Spec == Init /\ [][Next]_vars

\* the operations on the roster, over more files, within one millisecond
\* and one import at a time
NextRoster ==
    \/ \E name \in TypedNames : AddStudent(name) /\ Bounded
    \/ \E text \in ImportFiles :
          SelectFile(text) /\ reading = <<>> /\ ~HasDefault(sQueue)
    \/ \E i \in 1..Len(reading) : FileLoaded(i) /\ Bounded
    \/ Render
    \/ ResetConfirmed

SpecRoster == Init /\ [][NextRoster]_vars

\* the operations on the attendance table of a typed roster
NextAttendance ==
    \/ \E name \in TypedNames : AddStudent(name) /\ Bounded
    \/ \E i \in 1..Len(students) : ToggleAttendance(students[i].id)
    \/ Reload
    \/ ResetConfirmed
    \/ ResetDeclined
    \/ Tick
    \/ Midnight

SpecAttendance == Init /\ [][NextAttendance]_vars

\* the page is about to be opened on whatever the storage of the origin holds
StoredStudents == {Null, Garbage, StringifyStudents(<<>>)}
StoredAttendance == {Null, Garbage, StringifyAttendance(EmptyTable)}

InitStored ==
    /\ students = <<>>
    /\ sBase = <<>>
    /\ sQueue = <<>>
    /\ attendance = EmptyTable
    /\ today = 1
    /\ now = 1
    /\ date = 1
    /\ reading = <<>>
    /\ ls \in [students : StoredStudents, attendance : StoredAttendance]
    /\ phase = "closed"
    /\ op = [name |-> "init"]

SpecStored == InitStored /\ [][NextAttendance]_vars

\* the scenario file alone, picked and imported one import at a time, with
\* resets in between
NextScenario ==
    \/ SelectFile(ScenarioText) /\ reading = <<>> /\ sQueue = <<>>
    \/ \E i \in 1..Len(reading) : FileLoaded(i)
    \/ Render
    \/ ResetConfirmed
    \/ Tick

SpecScenario == Init /\ [][NextScenario]_vars

\* one student with a record for each of the first `total` days, present on
\* the first `present` of them, shown on the last of these days
DailyRecords(present, total) ==
    [d \in 1..total |->
        [date |-> d, status |-> IF d <= present THEN "present" ELSE "absent"]]

InitRecords ==
    \E total \in 0..MaxRecords :
        \E present \in 0..total :
            LET roster == <<[id |-> Id(1, 0), name |-> <<"B", "o", "b">>]>>
                table == IF total = 0 THEN EmptyTable
                         ELSE [k \in {Id(1, 0)} |-> DailyRecords(present, total)]
                day == IF total = 0 THEN 1 ELSE total
            IN /\ students = roster
               /\ sBase = roster
               /\ sQueue = <<>>
               /\ attendance = table
               /\ today = day
               /\ now = day
               /\ date = day
               /\ reading = <<>>
               /\ ls = [students |-> StringifyStudents(roster),
                        attendance |-> StringifyAttendance(table)]
               /\ phase = "running"
               /\ op = [name |-> "init"]

NextRecords ==
    \/ \E i \in 1..Len(students) : ShowRow(i)
    \/ \E i \in 1..Len(students) : ToggleAttendance(students[i].id)

SpecRecords == InitRecords /\ [][NextRecords]_vars

\* a typed roster, its toggles over the days, and its export
NextExport ==
    \/ \E name \in ExportNames : AddStudent(name) /\ Bounded
    \/ \E i \in 1..Len(students) : ToggleAttendance(students[i].id)
    \/ ExportCSV
    \/ ResetConfirmed
    \/ Tick
    \/ Midnight

SpecExport == Init /\ [][NextExport]_vars

\* a typed roster of one to MaxRoster students, its export, and the import
\* of the file just exported, with no other operation during the import
Idle ==
    /\ Len(students) <= MaxRoster
    /\ reading = <<>>
    /\ sQueue = <<>>

NextRoundTrip ==
    \/ \E name \in ExportNames : AddStudent(name) /\ Bounded /\ Idle
    \/ \E i \in 1..Len(students) : ToggleAttendance(students[i].id) /\ Idle
    \/ ExportCSV /\ Idle
    \/ /\ op.name = "export"
       /\ students # <<>>
       /\ SelectFile(op.text)
    \/ \E i \in 1..Len(reading) : FileLoaded(i)
    \/ Render
    \/ ResetConfirmed
    \/ Midnight /\ Idle

SpecRoundTrip == Init /\ [][NextRoundTrip]_vars

----------------------------------------------------------------------------
(* Claims *)

Names(roster) == [i \in 1..Len(roster) |-> roster[i].name]

\* C1: the ids of the students in the roster are pairwise distinct, after any
\* sequence of addStudent and import, also when two of them read the same
\* clock value.
C1_UniqueIds ==
    \A i, j \in 1..Len(students) : i # j => students[i].id # students[j].id

\* C2: starting from an empty table, after any toggles interleaved with
\* advances of the date, no record list holds two records of one date.
C2_OneRecordPerDate ==
    \A id \in DOMAIN attendance :
        \A i, j \in 1..Len(attendance[id]) :
            i # j => attendance[id][i].date # attendance[id][j].date

\* a student toggled on both days has a record for each
C2_Witness ==
    \E id \in DOMAIN attendance :
        /\ Len(attendance[id]) = 2
        /\ attendance[id][1].date # attendance[id][2].date

\* the status the claims call the student's today status: that of the record
\* for the calendar date, absent when there is none
StatusOn(table, id, day) ==
    IF \E i \in 1..Len(RecordsOf(table, id)) : RecordsOf(table, id)[i].date = day
    THEN (CHOOSE r \in {RecordsOf(table, id)[i] : i \in 1..Len(RecordsOf(table, id))} :
            r.date = day).status
    ELSE "absent"

Flip(status) == IF status = "present" THEN "absent" ELSE "present"

\* C3: a toggle on a day with no record makes the student's status of that
\* day present, a toggle on a day with a record flips it; so every toggle
\* turns the day's status (absent when there is no record) into the other
\* one, and two toggles on one day restore it.
C3_ToggleFlipsToday ==
    [][\A i \in 1..Len(students) :
          ToggleAttendance(students[i].id) =>
              StatusOn(attendance', students[i].id, date') =
                  Flip(StatusOn(attendance, students[i].id, date))]_vars

\* C4: the persisted values are the serialised roster and table, and a
\* reload loads exactly the roster and table that were in memory before it.
C4_PersistedIsMemory ==
    phase = "running" =>
        /\ ls.students = StringifyStudents(students)
        /\ ls.attendance = StringifyAttendance(attendance)
        /\ op.name = "reload" =>
              /\ students = op.before.students
              /\ attendance = op.before.attendance

\* a reload that had a roster and records to load
C4_Witness ==
    /\ op.name = "reload"
    /\ Len(students) = 2
    /\ \E id \in DOMAIN attendance : Len(attendance[id]) = 2

\* C5: when a persisted key holds text that does not parse, loading raises
\* no error and the store starts with an empty roster and an empty table.
C5_UnparsableLoadsEmpty ==
    (/\ op.name = "reload"
     /\ op.stored.students = Garbage \/ op.stored.attendance = Garbage)
        => /\ phase = "running"
           /\ students = <<>>
           /\ attendance = EmptyTable

\* C6: a confirmed reset leaves the roster and the table empty and the
\* persisted state without students and records; a declined reset leaves
\* the roster, the table and both persisted keys as they were.
HoldsNothing(store) ==
    /\ store.students \in {Null, StringifyStudents(<<>>)}
    /\ store.attendance \in {Null, StringifyAttendance(EmptyTable)}

C6_Reset ==
    [][/\ (op'.name = "reset" /\ op'.confirmed) =>
              /\ students' = <<>>
              /\ Settled(sBase', sQueue') = <<>>
              /\ attendance' = EmptyTable
              /\ HoldsNothing(ls')
       /\ (op'.name = "reset" /\ ~op'.confirmed) =>
              /\ students' = students
              /\ Settled(sBase', sQueue') = Settled(sBase, sQueue)
              /\ attendance' = attendance
              /\ ls' = ls]_vars

\* a confirmed reset of a store that had students, records and a read in flight
C6_Witness ==
    /\ op.name = "reset"
    /\ op.confirmed
    /\ op.hadData

\* a is b with some elements left out
RECURSIVE IsSubseq(_, _)
IsSubseq(a, b) ==
    IF a = <<>> THEN TRUE
    ELSE IF b = <<>> THEN FALSE
    ELSE IF Head(a) = Head(b) THEN IsSubseq(Tail(a), Tail(b))
    ELSE IsSubseq(a, Tail(b))

\* C7: a student accepted into the roster by add or import stays in it, with
\* the same id and name and at the same relative position: the roster an
\* import produced is still contained, in order, in the roster of the render
\* that applied it.
C7_AcceptedStays ==
    op.name = "render" =>
        \A k \in 1..Len(op.imports) : IsSubseq(op.imports[k].result, students)

\* C8: addStudent with a name that is empty after trimming leaves the roster
\* unchanged; with any other name it appends one student, whose name is the
\* trimmed input and whose id no student already in the roster has.
Stripped(text) ==
    LET inked == {i \in 1..Len(text) : text[i] \notin White}
    IN IF inked = {} THEN <<>>
       ELSE SubSeq(text, CHOOSE i \in inked : \A j \in inked : i <= j,
                         CHOOSE i \in inked : \A j \in inked : i >= j)

C8_AddStudent ==
    [][\A name \in TypedNames :
          AddStudent(name) =>
              IF Stripped(name) = <<>>
              THEN students' = students
              ELSE /\ Len(students') = Len(students) + 1
                   /\ SubSeq(students', 1, Len(students)) = students
                   /\ students'[Len(students')].name = Stripped(name)
                   /\ \A i \in 1..Len(students) :
                         students[i].id # students'[Len(students')].id]_vars

\* the lines of a text: what stands between two line feeds, without the
\* carriage return before a line feed
LineStarts(text) == {1} \cup {i + 1 : i \in {j \in 1..Len(text) : text[j] = "\n"}}

LineAt(text, start) ==
    LET feeds == {j \in start..Len(text) : text[j] = "\n"}
        stop == IF feeds = {} THEN Len(text) + 1
                ELSE CHOOSE j \in feeds : \A k \in feeds : j <= k
        last == IF stop <= Len(text) /\ stop - 1 >= start /\ text[stop - 1] = "\r"
                THEN stop - 2 ELSE stop - 1
    IN SubSeq(text, start, last)

RECURSIVE LinesFrom(_, _)
LinesFrom(text, starts) ==
    IF starts = {} THEN <<>>
    ELSE LET first == CHOOSE i \in starts : \A j \in starts : i <= j
         IN <<LineAt(text, first)>> \o LinesFrom(text, starts \ {first})

\* the candidate names of a file: its lines, stripped, the empty ones dropped
Candidates(text) ==
    LET lines == LinesFrom(text, LineStarts(text))
        stripped == [i \in 1..Len(lines) |-> Stripped(lines[i])]
    IN SelectSeq(stripped, NonEmpty)

SameLetter(c, d) ==
    \/ c = d
    \/ \E i \in 1..Len(UpperCase) : {c, d} = {UpperCase[i], LowerCase[i]}

SameIgnoringCase(a, b) ==
    /\ Len(a) = Len(b)
    /\ \A i \in 1..Len(a) : SameLetter(a[i], b[i])

\* C9: an import accepts exactly the candidate names of the text that do not
\* equal, ignoring case, the name of a student in the roster it is applied
\* to, and appends them after that roster in file order; names that collide
\* only with each other are all accepted.
C9_Import ==
    op.name = "render" =>
        \A k \in 1..Len(op.imports) :
            LET prev == op.imports[k].prev
                result == op.imports[k].result
                Free(n) == \A i \in 1..Len(prev) : ~SameIgnoringCase(prev[i].name, n)
            IN /\ Len(result) >= Len(prev)
               /\ SubSeq(result, 1, Len(prev)) = prev
               /\ Names(SubSeq(result, Len(prev) + 1, Len(result))) =
                      SelectSeq(Candidates(op.imports[k].text), Free)

\* an import into a roster that holds one of its names in another case: one
\* name rejected, one accepted
C9_Witness ==
    /\ op.name = "render"
    /\ \E k \in 1..Len(op.imports) :
          /\ op.imports[k].prev # <<>>
          /\ Len(op.imports[k].result) = Len(op.imports[k].prev) + 1
          /\ Len(Candidates(op.imports[k].text)) = 2

ScenarioImported ==
    /\ op.name = "render"
    /\ Len(op.imports) = 1
    /\ op.imports[1].text = ScenarioText
    /\ op.imports[1].prev = <<>>

Alice == <<"A", "l", "i", "c", "e">>
Bob == <<"B", "o", "b">>
Carol == <<"C", "a", "r", "o", "l">>

\* C10: importing the scenario text into an empty roster yields the roster
\* Alice, Bob, Carol.
C10_ScenarioRoster ==
    ScenarioImported => Names(students) = <<Alice, Bob, Carol>>

\* C10, amended: it yields the roster Alice, Bob, Alice, Carol.
C10_ScenarioRosterKeepsRepeat ==
    ScenarioImported => Names(students) = <<Alice, Bob, Alice, Carol>>

C10_Witness ==
    /\ ScenarioImported
    /\ Len(students) = 4

----------------------------------------------------------------------------
(* Frame of the operations and the date of a toggle *)

\* the records of the student `id` whose date is not `day`
OnOtherDates(table, id, day) ==
    LET NotThatDay(r) == r.date # day
    IN SelectSeq(RecordsOf(table, id), NotThatDay)

\* the students of `roster` from position `from` on have no records and the
\* status absent on `day`
NoRecordsFrom(roster, from, table, day) ==
    \A i \in from..Len(roster) :
        /\ RecordsOf(table, roster[i].id) = <<>>
        /\ StatusOn(table, roster[i].id, day) = "absent"

\* C14: addStudent and import leave the attendance table unchanged, and the
\* student they add has no records and the status absent today; a toggle of
\* one student leaves the roster, the record list of every other student and
\* that student's records of the other dates unchanged.
C14_Frame ==
    [][/\ \A name \in TypedNames :
              AddStudent(name) =>
                  /\ attendance' = attendance
                  /\ NoRecordsFrom(students', Len(students) + 1, attendance', date')
       /\ (\E i \in 1..Len(reading) : FileLoaded(i)) => attendance' = attendance
       /\ Render =>
              /\ attendance' = attendance
              /\ NoRecordsFrom(students', Len(students) + 1, attendance', date')
       /\ \A i \in 1..Len(students) :
              ToggleAttendance(students[i].id) =>
                  /\ students' = students
                  /\ \A j \in 1..Len(students) :
                        j # i => RecordsOf(attendance', students[j].id) =
                                     RecordsOf(attendance, students[j].id)
                  /\ OnOtherDates(attendance', students[i].id, date) =
                         OnOtherDates(attendance, students[i].id, date)]_vars

\* C15: a toggle creates or modifies only the record whose date is the
\* calendar date at the moment it runs, also when that date has advanced
\* since the last render; a record of an earlier date is never changed.
C15_ToggleTouchesCalendarDate ==
    [][\A i \in 1..Len(students) :
          ToggleAttendance(students[i].id) =>
              \A id \in DOMAIN attendance' :
                  \A k \in 1..Len(attendance'[id]) :
                      (\/ k > Len(RecordsOf(attendance, id))
                       \/ attendance'[id][k] # RecordsOf(attendance, id)[k])
                          => attendance'[id][k].date = date]_vars

----------------------------------------------------------------------------
(* The attendance percentage *)

\* C13: the attendance percentage of a student is 0 when the student has no
\* records and otherwise 100 * presentCount / totalRecordCount rounded to the
\* nearest integer, a half going up; it is an integer from 0 to 100, and for
\* the records present, present, absent it is 67.
C13_Percentage ==
    op.name = "row" =>
        LET records == RecordsOf(attendance, op.id)
            total == Len(records)
            presentCount ==
                Cardinality({i \in 1..total : records[i].status = "present"})
        IN /\ total = 0 => op.attendancePercent = 0
           /\ total > 0 =>
                 op.attendancePercent = (200 * presentCount + total) \div (2 * total)
           /\ op.attendancePercent \in 0..100
           /\ [i \in 1..total |-> records[i].status] =
                  <<"present", "present", "absent">> => op.attendancePercent = 67

----------------------------------------------------------------------------
(* Export *)

\* the number of rows the students before the i-th have
RECURSIVE RowsBefore(_, _, _)
RowsBefore(roster, table, i) ==
    IF i <= 1 THEN 0
    ELSE RowsBefore(roster, table, i - 1)
         + (IF Len(RecordsOf(table, roster[i - 1].id)) = 0 THEN 1
            ELSE Len(RecordsOf(table, roster[i - 1].id)))

HeaderLine ==
    <<"S", "t", "u", "d", "e", "n", "t", " ", "N", "a", "m", "e", ",",
      "D", "a", "t", "e", ",", "S", "t", "a", "t", "u", "s">>

StatusWord(status) ==
    CASE status = "present" -> <<"p", "r", "e", "s", "e", "n", "t">>
      [] status = "absent" -> <<"a", "b", "s", "e", "n", "t">>

\* the exported text, line by line: the header, then student by student in
\* roster order the student's rows
IsExportOf(text, roster, table) ==
    LET lines == LinesFrom(text, LineStarts(text))
    IN /\ Len(lines) = 1 + RowsBefore(roster, table, Len(roster) + 1)
       /\ lines[1] = HeaderLine
       /\ \A i \in 1..Len(roster) :
             LET records == RecordsOf(table, roster[i].id)
                 first == 1 + RowsBefore(roster, table, i)
             IN IF records = <<>>
                THEN lines[first + 1] =
                         roster[i].name \o <<",", ",">> \o NoRecordsText
                ELSE \A k \in 1..Len(records) :
                        lines[first + k] =
                            roster[i].name \o <<",">> \o DateText(records[k].date)
                                \o <<",">> \o StatusWord(records[k].status)

\* C12: exportCSV produces the header row followed, in roster order, by one
\* row (name, date, status) per record of each student that has records and
\* one row (name, empty date, No records) for each student that has none; the
\* data rows number the sum over the students of max(1, number of records);
\* the export changes neither the roster nor the attendance table.
C12_Export ==
    [][ExportCSV =>
          /\ IsExportOf(op'.text, students, attendance)
          /\ students' = students
          /\ Settled(sBase', sQueue') = Settled(sBase, sQueue)
          /\ attendance' = attendance
          /\ ls' = ls]_vars

\* an export of two students, one with two records and one with none
C12_Witness ==
    /\ op.name = "export"
    /\ \E i, j \in 1..Len(students) :
          /\ Len(RecordsOf(attendance, students[i].id)) = 2
          /\ RecordsOf(attendance, students[j].id) = <<>>

\* the two rosters have the same names, compared ignoring case
SameNameSet(a, b) ==
    /\ \A i \in 1..Len(a) : \E j \in 1..Len(b) : SameIgnoringCase(a[i].name, b[j].name)
    /\ \A j \in 1..Len(b) : \E i \in 1..Len(a) : SameIgnoringCase(a[i].name, b[j].name)

\* C11: exporting a store to CSV and importing the exported text into the
\* same store leaves the set of student names, compared ignoring case, as it
\* was, adds and duplicates no name, and leaves the attendance table
\* unchanged.
C11_RoundTrip ==
    [][Render =>
          \A k \in 1..Len(op'.imports) :
              op'.imports[k].text = CsvContent(op'.imports[k].prev, attendance) =>
                  /\ SameNameSet(op'.imports[k].result, op'.imports[k].prev)
                  /\ Len(op'.imports[k].result) = Len(op'.imports[k].prev)
                  /\ attendance' = attendance]_vars

====
